---- MODULE Spec2Model ----
(***************************************************************************)
(* Model of unicorn_backend/model_runner.py: the single-model runner that  *)
(* parses its command line, builds an OPF model and an anomaly-likelihood  *)
(* estimator, then reads JSON lines from stdin and writes one              *)
(* [rowIndex, anomalyProbability] line per input line to stdout.  A fault  *)
(* anywhere is reported as one JSON object on stderr followed by           *)
(* os._exit(1).                                                            *)
(*                                                                         *)
(* Numbers: raw anomaly scores and probabilities are kept in tenths        *)
(* (0..10 stands for 0.0..1.0, so 5 is 0.5).                               *)
(***************************************************************************)
EXTENDS Integers, Sequences, FiniteSets, TLC

\* ------------------------------------------------------------------ bounds
\* Lines the front end sends before it closes the pipe.
MaxLines == 3
\* Lines the pipe holds between the front end and readline().
PipeLines == 1
\* Candidates the parameter search may return.
MaxCandidates == 2

\* ------------------------------------------------------------ JSON texts
\* A text is a sequence of tokens; json_loads parses it.
Tok(k, n, s) == [k |-> k, n |-> n, s |-> s]
LB == Tok("[", 0, "")
RB == Tok("]", 0, "")
LC == Tok("{", 0, "")
RC == Tok("}", 0, "")
COMMA == Tok(",", 0, "")
COLON == Tok(":", 0, "")
NULL == Tok("null", 0, "")
BAD == Tok("bad", 0, "not-json")
NUM(n) == Tok("num", n, "")
\* a string literal of len characters
STR(s, len) == Tok("str", len, s)

IsAtomTok(t) == t.k \in {"num", "str", "null"}
AtomType(t) == CASE t.k = "num" -> "number"
                 [] t.k = "str" -> "string"
                 [] OTHER -> "null"
\* A decoded JSON value; items holds an array's elements or an object's
\* members (key is "" for array elements).
Member(key, t) == [key |-> key, type |-> AtomType(t), n |-> t.n, s |-> t.s]
Value(type, n, s, items) == [type |-> type, n |-> n, s |-> s, items |-> items]
NoValue == Value("none", 0, "", <<>>)

ArrayBodyOk(b) ==
  \/ Len(b) = 0
  \/ /\ Len(b) % 2 = 1
     /\ \A i \in 1..Len(b) : IF i % 2 = 1 THEN IsAtomTok(b[i]) ELSE b[i] = COMMA
ArrayItems(b) == [j \in 1..((Len(b) + 1) \div 2) |-> Member("", b[2 * j - 1])]

ObjectBodyOk(b) ==
  \/ Len(b) = 0
  \/ /\ Len(b) % 4 = 3
     /\ \A i \in 1..Len(b) :
          CASE i % 4 = 1 -> b[i].k = "str"
            [] i % 4 = 2 -> b[i] = COLON
            [] i % 4 = 3 -> IsAtomTok(b[i])
            [] OTHER -> b[i] = COMMA
ObjectItems(b) ==
  [j \in 1..((Len(b) + 1) \div 4) |-> Member(b[4 * j - 3].s, b[4 * j - 1])]

\* json.loads: [ok, v]; ok = FALSE stands for the ValueError it raises.
json_loads(toks) ==
  LET n == Len(toks)
      body == SubSeq(toks, 2, n - 1)
  IN  IF n = 1 /\ IsAtomTok(toks[1])
        THEN [ok |-> TRUE,
              v |-> Value(AtomType(toks[1]), toks[1].n, toks[1].s, <<>>)]
      ELSE IF n >= 2 /\ toks[1] = LB /\ toks[n] = RB /\ ArrayBodyOk(body)
        THEN [ok |-> TRUE, v |-> Value("array", 0, "", ArrayItems(body))]
      ELSE IF n >= 2 /\ toks[1] = LC /\ toks[n] = RC /\ ObjectBodyOk(body)
        THEN [ok |-> TRUE, v |-> Value("object", 0, "", ObjectItems(body))]
      ELSE [ok |-> FALSE, v |-> NoValue]

\* --------------------------------------------------------- command line
\* The member of an object value under key (stats["min"], stats.get(...)).
HasKey(v, key) == \E i \in 1..Len(v.items) : v.items[i].key = key
Get(v, key) == v.items[CHOOSE i \in 1..Len(v.items) : v.items[i].key = key]

\* stats_schema.json: min and max are required numbers, minResolution an
\* optional number.
ValidStats(v) ==
  /\ v.type = "object"
  /\ HasKey(v, "min") /\ Get(v, "min").type = "number"
  /\ HasKey(v, "max") /\ Get(v, "max").type = "number"
  /\ HasKey(v, "minResolution") => Get(v, "minResolution").type = "number"

\* An option of the command line: absent (None) or present with a text.
Absent(text) == [present |-> FALSE, text |-> text]
Given(text) == [present |-> TRUE, text |-> text]
\* "not option": None and the empty string are both falsy.
FalsyId(o) == ~o.present \/ o.text = ""
FalsyStats(o) == ~o.present \/ Len(o.text) = 0

StatsMinMax(lo, hi) ==
  <<LC, STR("min", 3), COLON, NUM(lo), COMMA, STR("max", 3), COLON, NUM(hi), RC>>
StatsWithResolution ==
  <<LC, STR("min", 3), COLON, NUM(0), COMMA, STR("max", 3), COLON, NUM(100),
    COMMA, STR("minResolution", 13), COLON, NUM(1), RC>>
StatsNoMax == <<LC, STR("min", 3), COLON, NUM(0), RC>>
StatsStringMin ==
  <<LC, STR("min", 3), COLON, STR("a", 1), COMMA, STR("max", 3), COLON, NUM(1), RC>>

Argv(help, unknown, positional, modelId, stats) ==
  [help |-> help, unknown |-> unknown, positional |-> positional,
   modelId |-> modelId, stats |-> stats]
GoodArgvs ==
  { Argv(FALSE, FALSE, 0, Given("m1"), Given(StatsMinMax(0, 100))),
    Argv(FALSE, FALSE, 0, Given("m2"), Given(StatsWithResolution)) }
\* Each carries one defect (or the help request), so the order in which
\* optparse meets the arguments does not matter.
BadArgvs ==
  { Argv(FALSE, FALSE, 1, Given("m1"), Given(StatsMinMax(0, 100))),
    Argv(FALSE, TRUE, 0, Given("m1"), Given(StatsMinMax(0, 100))),
    Argv(FALSE, FALSE, 0, Absent(""), Given(StatsMinMax(0, 100))),
    Argv(FALSE, FALSE, 0, Given(""), Given(StatsMinMax(0, 100))),
    Argv(FALSE, FALSE, 0, Given("m1"), Absent(<<>>)),
    Argv(FALSE, FALSE, 0, Given("m1"), Given(<<>>)),
    Argv(FALSE, FALSE, 0, Given("m1"), Given(<<BAD>>)),
    Argv(FALSE, FALSE, 0, Given("m1"), Given(<<NUM(5)>>)),
    Argv(FALSE, FALSE, 0, Given("m1"), Given(StatsNoMax)),
    Argv(FALSE, FALSE, 0, Given("m1"), Given(StatsStringMin)) }
HelpArgvs ==
  { Argv(TRUE, FALSE, 0, Absent(""), Absent(<<>>)) }
Argvs == GoodArgvs \cup BadArgvs \cup HelpArgvs

\* What _parseArgs does: it returns _Options, raises, or (optparse's own
\* -h/--help action, not overridden by MyOptionParser) prints the usage text
\* to stdout and leaves through sys.exit(0).
Returned(modelId, stats) ==
  [outcome |-> "return", exc |-> "", modelId |-> modelId, stats |-> stats]
Raised(exc) ==
  [outcome |-> "raise", exc |-> exc, modelId |-> "", stats |-> NoValue]
SysExit0 ==
  [outcome |-> "sysexit", exc |-> "", modelId |-> "", stats |-> NoValue]

\* A variant of parseArgs: the stats are not validated against the schema.
parseArgsUnvalidated(a) ==
  IF a.unknown THEN Raised("_CommandLineArgError")
  ELSE IF a.help THEN SysExit0
  ELSE IF a.positional # 0 THEN Raised("_CommandLineArgError")
  ELSE IF FalsyId(a.modelId) THEN Raised("_CommandLineArgError")
  ELSE IF FalsyStats(a.stats) THEN Raised("_CommandLineArgError")
  ELSE LET stats == json_loads(a.stats.text)
       IN  IF ~stats.ok THEN Raised("ValueError")
           ELSE Returned(a.modelId.text, stats.v)

parseArgs(a) ==
  IF a.unknown THEN Raised("_CommandLineArgError")
  ELSE IF a.help THEN SysExit0
  ELSE IF a.positional # 0 THEN Raised("_CommandLineArgError")
  ELSE IF FalsyId(a.modelId) THEN Raised("_CommandLineArgError")
  ELSE IF FalsyStats(a.stats) THEN Raised("_CommandLineArgError")
  ELSE LET stats == json_loads(a.stats.text)
       IN  IF ~stats.ok THEN Raised("ValueError")
           ELSE IF ~ValidStats(stats.v) THEN Raised("_CommandLineArgError")
           ELSE Returned(a.modelId.text, stats.v)

\* ------------------------------------------------------ input messages
\* A line as readline() returns it: its text and whether a newline ends it.
\* The zero-length read (end of stream) is not a line.
Line(text, nl) == [text |-> text, nl |-> nl]
\* The empty string: what readline() returns at the end of the stream.
EmptyString == Line(<<>>, FALSE)
\* A variant of truthy: the line is stripped before it is tested, so a blank
\* line counts as the end of the stream.
truthyStripped(m) == Len(m.text) > 0
\* "if message:": a string is true unless it is empty.
truthy(m) == Len(m.text) > 0 \/ m.nl
ValidText(ts, v) == <<LB, NUM(ts), COMMA, NUM(v), RB>>
ValidTexts == { ValidText(0, 10), ValidText(60, 12) }
MalformedTexts ==
  { <<BAD>>,                                      \* not-json
    <<>>,                                         \* a blank line
    <<LB, NUM(1), RB>>,                           \* [1]
    <<NUM(5)>>,                                   \* 5
    <<STR("ab", 2)>> }                            \* "ab"
\* Two-element arrays whose members are not both numbers.
OddTexts ==
  { <<LB, STR("a", 1), COMMA, NUM(1), RB>>,       \* ["a", 1]
    <<LB, NUM(0), COMMA, STR("x", 1), RB>> }      \* [0, "x"]
MessageTexts == ValidTexts \cup MalformedTexts \cup OddTexts

\* datetime.utcfromtimestamp
Datetime(n) == [utc |-> n]
\* The two-tuple (<timestamp>, <scalar-value>) the generator yields.
NoRow == <<>>
Yielded(ts, v) == [ok |-> TRUE, exc |-> "", row |-> <<Datetime(ts), v>>]
DecodeError(exc) == [ok |-> FALSE, exc |-> exc, row |-> NoRow]

\* "timestamp, scalarValue = json.loads(message)" followed by
\* utcfromtimestamp(timestamp): the row yielded, or the exception raised.
\* Unpacking iterates: an array gives its elements, a string its characters,
\* an object its keys; a number or null is not iterable.
decodeMessage(message) ==
  LET j == json_loads(message.text)
      v == j.v
  IN  IF ~j.ok THEN DecodeError("ValueError")
      ELSE IF v.type \in {"number", "null"} THEN DecodeError("TypeError")
      ELSE IF v.type = "string"
        THEN IF v.n # 2 THEN DecodeError("ValueError") ELSE DecodeError("TypeError")
      ELSE IF Len(v.items) # 2 THEN DecodeError("ValueError")
      ELSE IF v.type = "object" THEN DecodeError("TypeError")
      ELSE IF v.items[1].type # "number" THEN DecodeError("TypeError")
      ELSE Yielded(v.items[1].n, v.items[2])

\* ModelRecordEncoder.encode against _INPUT_RECORD_SCHEMA: field c0 is the
\* timestamp, field c1 the scalar.
encode(inputRow) == [c0 |-> inputRow[1], c1 |-> inputRow[2]]

\* json.dumps of the output message and of the error message.
json_dumps_pair(a, b) == <<LB, NUM(a), COMMA, NUM(b), RB>>
json_dumps_error(errorText) ==
  <<LC, STR("errorText", 9), COLON, STR(errorText, 1), COMMA,
    STR("diagnosticInfo", 14), COLON, STR("traceback", 9), RC>>
UsageText == <<Tok("usage", 0, "Start Unicorn ModelRunner that runs a single model.")>>

\* -------------------------------------------------------- collaborators
\* getScalarMetricWithTimeOfDayParams: the candidate of a given rank for
\* the stats (minResolution is None, here -1, when the stats omit it).
Candidate(stats, rank) ==
  [modelConfig |->
     [minVal |-> Get(stats, "min").n, maxVal |-> Get(stats, "max").n,
      minResolution |-> IF HasKey(stats, "minResolution")
                          THEN Get(stats, "minResolution").n ELSE -1,
      rank |-> rank],
   inferenceArgs |-> "anomaly"]
NoParams == [modelConfig |-> [minVal |-> 0, maxVal |-> 0, minResolution |-> -1, rank |-> 0],
             inferenceArgs |-> ""]
\* Raw anomaly scores the model may return, in tenths.
RawScores == {0, 10}
\* Records the estimator answers with the neutral default before it has
\* history to fit a distribution.
ProbationaryPeriod == 2
NeutralLikelihood == 5
Likelihoods == {0, 5, 10}
\* AnomalyLikelihood.anomalyProbability: the values it may return in a given
\* state of the estimator.
likelihoodResults(estimator) ==
  IF estimator.iteration < ProbationaryPeriod
    THEN {NeutralLikelihood} ELSE Likelihoods
\* Data points the estimator's sliding history keeps.
HistoryWindow == 1
\* The last n elements of a sequence.
LastN(q, n) == IF Len(q) <= n THEN q ELSE SubSeq(q, Len(q) - n + 1, Len(q))
\* The estimator after the update: the data point joins its history and the
\* oldest one is displaced.
likelihoodUpdated(estimator, value, anomalyScore, timestamp) ==
  [constructed |-> TRUE,
   iteration |-> estimator.iteration + 1,
   historicalScores |->
     LastN(Append(estimator.historicalScores,
                  [timestamp |-> timestamp, value |-> value,
                   anomalyScore |-> anomalyScore]),
           HistoryWindow)]
NewAnomalyLikelihood == [constructed |-> TRUE, iteration |-> 0, historicalScores |-> <<>>]
NoAnomalyLikelihood == [constructed |-> FALSE, iteration |-> 0, historicalScores |-> <<>>]
\* The model keeps what it learnt; of that the count of the records it has
\* run and the last of them are kept here.
NoModel == [constructed |-> FALSE, params |-> NoParams, learning |-> FALSE,
            inference |-> FALSE, nrecords |-> 0, records |-> <<>>]
modelAfterRun(m, inputRecord) ==
  [m EXCEPT !.nrecords = @ + 1, !.records = <<inputRecord>>]

\* ----------------------------------------------------------------- state
VARIABLES
  argv,               \* sys.argv[1:]
  pc,                 \* where the process is
  exc,                \* the exception main() caught ("" when none)
  options,            \* what _parseArgs returned
  modelRecordEncoder, \* self._modelRecordEncoder is constructed
  possibleModels,     \* the ranked candidates of the parameter search
  model,              \* self._model
  anomalyLikelihood,  \* self._anomalyLikelihood
  stdin,              \* lines sent and not yet read
  closed,             \* the front end closed the pipe
  nsent,              \* lines the front end has sent
  nread,              \* lines readline() has returned
  message,            \* the generator's local: what readline() returned
  enumCount,          \* enumerate()'s counter
  rowIndex,           \* run()'s loop variables
  inputRow,
  rawAnomalyScore,    \* _computeAnomalyProbability's locals
  anomalyProbability,
  stdoutBuf,          \* written to sys.stdout and not yet flushed
  stdout,             \* what the front end has received on stdout
  stderr,             \* what the front end has received on stderr
  stderrWrites,       \* calls of sys.stderr.write
  exitStatus          \* the process exit status (-1 while it runs)

vars == <<argv, pc, exc, options, modelRecordEncoder, possibleModels, model,
          anomalyLikelihood, stdin, closed, nsent, nread, message, enumCount,
          rowIndex, inputRow, rawAnomalyScore, anomalyProbability, stdoutBuf,
          stdout, stderr, stderrWrites, exitStatus>>

procVars == <<exc, options, modelRecordEncoder, possibleModels, model,
              anomalyLikelihood, nread, message, enumCount, rowIndex, inputRow,
              rawAnomalyScore, anomalyProbability, stdoutBuf, stdout, stderr,
              stderrWrites, exitStatus>>

NoOptions == [modelId |-> "", stats |-> NoValue]

Init ==
  /\ argv \in Argvs
  /\ pc = "main"
  /\ exc = ""
  /\ options = NoOptions
  /\ modelRecordEncoder = FALSE
  /\ possibleModels = <<>>
  /\ model = NoModel
  /\ anomalyLikelihood = NoAnomalyLikelihood
  /\ stdin = <<>>
  /\ closed = FALSE
  /\ nsent = 0
  /\ nread = 0
  /\ message = EmptyString
  /\ enumCount = 0
  /\ rowIndex = -1
  /\ inputRow = NoRow
  /\ rawAnomalyScore = -1
  /\ anomalyProbability = -1
  /\ stdoutBuf = <<>>
  /\ stdout = <<>>
  /\ stderr = <<>>
  /\ stderrWrites = 0
  /\ exitStatus = -1

\* ------------------------------------------------------------ front end
\* The front end writes one more line into the pipe.  A last line with no
\* newline reaches readline() only because the pipe is closed behind it; it is
\* not the empty string, which is no line at all.
Send ==
  /\ pc # "exited"
  /\ ~closed
  /\ nsent < MaxLines
  /\ Len(stdin) < PipeLines
  /\ \E text \in MessageTexts, nl \in BOOLEAN :
       /\ ~nl => Len(text) > 0
       /\ stdin' = Append(stdin, Line(text, nl))
       /\ closed' = ~nl
  /\ nsent' = nsent + 1
  /\ UNCHANGED <<argv, pc>>
  /\ UNCHANGED procVars

\* The front end closes the pipe (or dies).
Close ==
  /\ pc # "exited"
  /\ ~closed
  /\ closed' = TRUE
  /\ UNCHANGED <<argv, pc, stdin, nsent>>
  /\ UNCHANGED procVars

\* ----------------------------------------------------------------- main
\* main(): options = _parseArgs()
ParseArgs ==
  /\ pc = "main"
  /\ LET r == parseArgs(argv)
     IN  /\ options' = IF r.outcome = "return"
                         THEN [modelId |-> r.modelId, stats |-> r.stats]
                         ELSE options
         /\ exc' = IF r.outcome = "raise" THEN r.exc ELSE exc
         /\ pc' = CASE r.outcome = "return" -> "init_encoder"
                    [] r.outcome = "raise" -> "except"
                    [] OTHER -> "exited"
         /\ stdout' = IF r.outcome = "sysexit" THEN Append(stdout, UsageText)
                      ELSE stdout
         /\ exitStatus' = IF r.outcome = "sysexit" THEN 0 ELSE exitStatus
  /\ UNCHANGED <<argv, modelRecordEncoder, possibleModels, model,
                 anomalyLikelihood, stdin, closed, nsent, nread, message, enumCount,
                 rowIndex, inputRow, rawAnomalyScore, anomalyProbability,
                 stdoutBuf, stderr, stderrWrites>>

\* __init__: self._modelRecordEncoder = ModelRecordEncoder(fields=...)
ConstructEncoder ==
  /\ pc = "init_encoder"
  /\ \E ok \in BOOLEAN :
       /\ modelRecordEncoder' = ok
       /\ pc' = IF ok THEN "createModel" ELSE "except"
       /\ exc' = IF ok THEN exc ELSE "EncoderError"
  /\ UNCHANGED <<argv, options, possibleModels, model, anomalyLikelihood,
                 stdin, closed, nsent, nread, message, enumCount, rowIndex, inputRow,
                 rawAnomalyScore, anomalyProbability, stdoutBuf, stdout,
                 stderr, stderrWrites, exitStatus>>

\* _createModel: possibleModels = getScalarMetricWithTimeOfDayParams(...)
SearchParams ==
  /\ pc = "createModel"
  /\ \E ok \in BOOLEAN, n \in 0..MaxCandidates :
       /\ ~ok => n = 0
       /\ possibleModels' = [i \in 1..n |-> Candidate(options.stats, i)]
       /\ pc' = IF ok THEN "createModel_select" ELSE "except"
       /\ exc' = IF ok THEN exc ELSE "SearchError"
  /\ UNCHANGED <<argv, options, modelRecordEncoder, model, anomalyLikelihood,
                 stdin, closed, nsent, nread, message, enumCount, rowIndex, inputRow,
                 rawAnomalyScore, anomalyProbability, stdoutBuf, stdout,
                 stderr, stderrWrites, exitStatus>>

\* A variant of firstCandidate: an empty list yields default parameters.
firstCandidateOrDefault(candidates) ==
  IF Len(candidates) = 0
    THEN [found |-> TRUE, params |-> NoParams]
    ELSE [found |-> TRUE, params |-> candidates[1]]

\* A variant of firstCandidate: the last candidate of the list is taken.
lastCandidate(candidates) ==
  IF Len(candidates) = 0
    THEN [found |-> FALSE, params |-> NoParams]
    ELSE [found |-> TRUE, params |-> candidates[Len(candidates)]]

\* swarmParams = possibleModels[0]: the first-ranked candidate, or the
\* IndexError an empty list raises.
firstCandidate(candidates) ==
  IF Len(candidates) = 0
    THEN [found |-> FALSE, params |-> NoParams]
    ELSE [found |-> TRUE, params |-> candidates[1]]

\* _createModel: swarmParams = possibleModels[0]; ModelFactory.create(...);
\* enableLearning(); enableInference(...)
CreateModel ==
  /\ pc = "createModel_select"
  /\ \E ok \in BOOLEAN :
       LET swarmParams == firstCandidate(possibleModels)
       IN  IF ~swarmParams.found
             THEN /\ exc' = "IndexError"
                  /\ pc' = "except"
                  /\ model' = model
             ELSE /\ exc' = IF ok THEN exc ELSE "ModelError"
                  /\ pc' = IF ok THEN "init_likelihood" ELSE "except"
                  /\ model' = IF ok
                                THEN [constructed |-> TRUE,
                                      params |-> swarmParams.params,
                                      learning |-> TRUE, inference |-> TRUE,
                                      nrecords |-> 0, records |-> <<>>]
                                ELSE model
  /\ UNCHANGED <<argv, options, modelRecordEncoder, possibleModels,
                 anomalyLikelihood, stdin, closed, nsent, nread, message,
                 enumCount, rowIndex, inputRow, rawAnomalyScore,
                 anomalyProbability, stdoutBuf, stdout, stderr, stderrWrites,
                 exitStatus>>

\* Variants of constructedLikelihood: the estimator is left unbuilt, or it
\* starts with the history of an earlier run.
unbuiltLikelihood == NoAnomalyLikelihood
staleLikelihood ==
  [constructed |-> TRUE, iteration |-> ProbationaryPeriod, historicalScores |-> <<>>]
\* The estimator __init__ builds.
constructedLikelihood == NewAnomalyLikelihood

\* __init__: self._anomalyLikelihood = AnomalyLikelihood()
ConstructLikelihood ==
  /\ pc = "init_likelihood"
  /\ \E ok \in BOOLEAN :
       /\ anomalyLikelihood' = IF ok THEN constructedLikelihood ELSE anomalyLikelihood
       /\ pc' = IF ok THEN "run_read" ELSE "except"
       /\ exc' = IF ok THEN exc ELSE "EstimatorError"
  /\ UNCHANGED <<argv, options, modelRecordEncoder, possibleModels, model,
                 stdin, closed, nsent, nread, message, enumCount, rowIndex, inputRow,
                 rawAnomalyScore, anomalyProbability, stdoutBuf, stdout,
                 stderr, stderrWrites, exitStatus>>

\* ------------------------------------------------------------------ run
\* A variant of enumerateStart: the count starts at 1.
enumerateFromOne == 0 + 1
\* enumerate() counts from 0.
enumerateStart == 0
\* A variant of pcOnDecodeError: the bad line is skipped and the loop reads
\* the next one.
pcOnDecodeErrorSkip == "run_read"
\* Where the generator goes when decoding the line raises: the exception
\* leaves run() and reaches main()'s handler.
pcOnDecodeError == "except"
\* A variant of pcAfterWrite: the message is left in the buffer and the
\* loop goes on to the next read.
pcAfterWriteNoFlush == "run_read"
\* After sys.stdout.write, _emitOutputMessage flushes before returning.
pcAfterWrite == "emit_flush"

\* A variant of pcOnComputeError: the line is given up and the loop reads the
\* next one.
pcOnComputeErrorSkip == "run_read"
\* Where run() goes when _computeAnomalyProbability raises: nothing in run()
\* catches it, so it reaches main()'s handler.
pcOnComputeError == "except"

\* sys.stdin.readline(): the next line of the pipe, or the empty string when
\* the pipe is closed and drained.
readline == IF Len(stdin) > 0 THEN Head(stdin) ELSE EmptyString

\* A variant of readlineReturns: the read does not wait, an empty open pipe
\* gives the empty string.
readlineNoWait == TRUE
\* readline() returns once the pipe holds a line or is closed; until then the
\* call blocks.
readlineReturns == Len(stdin) > 0 \/ closed

\* _readInputMessages: message = sys.stdin.readline(), blocking until a line
\* or the end of the stream is there; a true message is decoded and yielded to
\* run()'s for statement, a false one ends the generator and run() returns.
ReadInputMessage ==
  /\ pc = "run_read"
  /\ readlineReturns
  /\ message' = readline
  /\ stdin' = IF Len(stdin) > 0 THEN Tail(stdin) ELSE stdin
  /\ nread' = IF Len(stdin) > 0 THEN nread + 1 ELSE nread
  /\ IF truthy(message')
       THEN LET d == decodeMessage(message')
            IN  /\ pc' = IF d.ok THEN "compute_run" ELSE pcOnDecodeError
                /\ exc' = IF d.ok THEN exc ELSE d.exc
                /\ inputRow' = IF d.ok THEN d.row ELSE inputRow
                /\ rowIndex' = IF d.ok THEN enumerateStart + enumCount ELSE rowIndex
                /\ enumCount' = IF d.ok THEN enumCount + 1 ELSE enumCount
       ELSE /\ pc' = "return"
            /\ UNCHANGED <<enumCount, rowIndex, inputRow, exc>>
  /\ UNCHANGED <<argv, options, modelRecordEncoder, possibleModels, model,
                 anomalyLikelihood, closed, nsent, rawAnomalyScore,
                 anomalyProbability, stdoutBuf, stdout, stderr, stderrWrites,
                 exitStatus>>

\* _computeAnomalyProbability: inputRecord = encode(inputRow);
\* rawAnomalyScore = self._model.run(inputRecord).inferences["anomalyScore"]
RunModel ==
  /\ pc = "compute_run"
  /\ \E ok \in BOOLEAN, score \in RawScores :
       /\ pc' = IF ok THEN "compute_likelihood" ELSE pcOnComputeError
       /\ exc' = IF ok THEN exc ELSE "ModelError"
       /\ rawAnomalyScore' = IF ok THEN score ELSE rawAnomalyScore
       /\ model' = IF ok
                     THEN modelAfterRun(model, encode(inputRow))
                     ELSE model
  /\ UNCHANGED <<argv, options, modelRecordEncoder, possibleModels,
                 anomalyLikelihood, stdin, closed, nsent, nread, message, enumCount,
                 rowIndex, inputRow, anomalyProbability, stdoutBuf, stdout,
                 stderr, stderrWrites, exitStatus>>

\* A variant of likelihoodArgs: the two members of the row are taken the
\* wrong way round.
likelihoodArgsSwapped ==
  [value |-> inputRow[1], anomalyScore |-> rawAnomalyScore, timestamp |-> inputRow[2]]
\* The arguments of the estimator's update: value=inputRow[1],
\* anomalyScore=rawAnomalyScore, timestamp=inputRow[0] (Python counts the
\* members of the row from 0, TLA+ from 1).
likelihoodArgs ==
  [value |-> inputRow[2], anomalyScore |-> rawAnomalyScore, timestamp |-> inputRow[1]]

\* _computeAnomalyProbability: anomalyProbability =
\* self._anomalyLikelihood.anomalyProbability(value=inputRow[1],
\* anomalyScore=rawAnomalyScore, timestamp=inputRow[0])
ComputeLikelihood ==
  /\ pc = "compute_likelihood"
  /\ \E ok \in BOOLEAN, p \in likelihoodResults(anomalyLikelihood) :
       /\ pc' = IF ok THEN "emit_write" ELSE pcOnComputeError
       /\ exc' = IF ok THEN exc ELSE "EstimatorError"
       /\ anomalyProbability' = IF ok THEN p ELSE anomalyProbability
       /\ anomalyLikelihood' =
            IF ok THEN likelihoodUpdated(anomalyLikelihood, likelihoodArgs.value,
                                         likelihoodArgs.anomalyScore,
                                         likelihoodArgs.timestamp)
            ELSE anomalyLikelihood
  /\ UNCHANGED <<argv, options, modelRecordEncoder, possibleModels, model,
                 stdin, closed, nsent, nread, message, enumCount, rowIndex, inputRow,
                 rawAnomalyScore, stdoutBuf, stdout, stderr, stderrWrites,
                 exitStatus>>

\* A variant of outputMessage: the scalar of the input row is emitted in the
\* place of the probability.
outputMessageOfValue == json_dumps_pair(rowIndex, inputRow[2].n)
\* The message _emitOutputMessage writes for run()'s
\* (rowIndex, anomalyProbability).
outputMessage == json_dumps_pair(rowIndex, anomalyProbability)

\* _emitOutputMessage: sys.stdout.write(message)
EmitWrite ==
  /\ pc = "emit_write"
  /\ \E ok \in BOOLEAN :
       /\ pc' = IF ok THEN pcAfterWrite ELSE "except"
       /\ exc' = IF ok THEN exc ELSE "IOError"
       /\ stdoutBuf' = IF ok THEN Append(stdoutBuf, outputMessage) ELSE stdoutBuf
  /\ UNCHANGED <<argv, options, modelRecordEncoder, possibleModels, model,
                 anomalyLikelihood, stdin, closed, nsent, nread, message, enumCount,
                 rowIndex, inputRow, rawAnomalyScore, anomalyProbability,
                 stdout, stderr, stderrWrites, exitStatus>>

\* _emitOutputMessage: sys.stdout.flush(); then run()'s loop asks the
\* generator for the next message.
EmitFlush ==
  /\ pc = "emit_flush"
  /\ \E ok \in BOOLEAN :
       /\ pc' = IF ok THEN "run_read" ELSE "except"
       /\ exc' = IF ok THEN exc ELSE "IOError"
       /\ stdout' = IF ok THEN stdout \o stdoutBuf ELSE stdout
       /\ stdoutBuf' = IF ok THEN <<>> ELSE stdoutBuf
  /\ UNCHANGED <<argv, options, modelRecordEncoder, possibleModels, model,
                 anomalyLikelihood, stdin, closed, nsent, nread, message, enumCount,
                 rowIndex, inputRow, rawAnomalyScore, anomalyProbability,
                 stderr, stderrWrites, exitStatus>>

\* ---------------------------------------------------------- termination
\* run() returned and main() with it: the interpreter exits normally (and
\* flushes what sys.stdout still buffers).
returnStatus == 0
Return ==
  /\ pc = "return"
  /\ pc' = "exited"
  /\ exitStatus' = returnStatus
  /\ stdout' = stdout \o stdoutBuf
  /\ stdoutBuf' = <<>>
  /\ UNCHANGED <<argv, exc, options, modelRecordEncoder, possibleModels, model,
                 anomalyLikelihood, stdin, closed, nsent, nread, message, enumCount,
                 rowIndex, inputRow, rawAnomalyScore, anomalyProbability,
                 stderr, stderrWrites>>

\* A variant of stderrMessages: the traceback text goes out ahead of the
\* JSON object.
stderrMessagesWithTraceback ==
  <<<<Tok("text", 0, "Traceback (most recent call last):")>>, json_dumps_error(exc)>>
\* What main()'s handler writes to stderr: the one JSON object.
stderrMessages == <<json_dumps_error(exc)>>

\* A variant of osExitStatus: the process leaves with status 0.
osExitStatusZero == 1 - 1
\* The status main() hands to os._exit.
osExitStatus == 1

\* A variant of pcAfterHandler: the handler reports the error and the loop
\* goes on with the next line.
pcAfterHandlerResume == "run_read"
\* Where main()'s handler leaves the process: os._exit ends it.
pcAfterHandler == "exited"

\* main(): except Exception: errorMessage = json.dumps({...}); try:
\* sys.stderr.write(errorMessage); sys.stderr.flush() except Exception: log;
\* then os._exit(1).  stderr is not buffered: a write that returns has
\* delivered the message, one that raises has delivered nothing.  os._exit
\* flushes nothing and runs no handler, so what sys.stdout still buffers is
\* lost.
HandleException ==
  /\ pc = "except"
  /\ \E ok \in BOOLEAN :
       stderr' = IF ok THEN stderr \o stderrMessages ELSE stderr
  /\ stderrWrites' = stderrWrites + 1
  /\ pc' = pcAfterHandler
  /\ exitStatus' = osExitStatus
  /\ UNCHANGED <<argv, exc, options, modelRecordEncoder, possibleModels, model,
                 anomalyLikelihood, stdin, closed, nsent, nread, message,
                 enumCount, rowIndex, inputRow, rawAnomalyScore,
                 anomalyProbability, stdoutBuf, stdout>>

Next ==
  \/ Send
  \/ Close
  \/ ParseArgs
  \/ ConstructEncoder
  \/ SearchParams
  \/ CreateModel
  \/ ConstructLikelihood
  \/ ReadInputMessage
  \/ RunModel
  \/ ComputeLikelihood
  \/ EmitWrite
  \/ EmitFlush
  \/ Return
  \/ HandleException

Spec == Init /\ [][Next]_vars

\* The steps of the process itself (all of Next but the front end's).
ProcNext ==
  \/ ParseArgs
  \/ ConstructEncoder
  \/ SearchParams
  \/ CreateModel
  \/ ConstructLikelihood
  \/ ReadInputMessage
  \/ RunModel
  \/ ComputeLikelihood
  \/ EmitWrite
  \/ EmitFlush
  \/ Return
  \/ HandleException
\* The front end's steps.
FrontEndNext == Send \/ Close

\* The process is one thread that runs on whenever it is not waiting in
\* readline(), every call it makes returning or raising; and the front end,
\* while the pipe is open, goes on to send a line or to close it.
\* The runs of FairSpec start with one of the valid command lines, or with
\* any of the others.
FairArgvs ==
  { Argv(FALSE, FALSE, 0, Given("m1"), Given(StatsMinMax(0, 100))) }
    \cup BadArgvs \cup HelpArgvs
FairInit == Init /\ argv \in FairArgvs
FairSpec == FairInit /\ [][Next]_vars /\ WF_vars(ProcNext) /\ WF_vars(FrontEndNext)

\* ========================================================== properties
\* The lines of stdout that are output messages (all of stdout, but for the
\* usage text of a --help run).
ResultLines == SelectSeq(stdout, LAMBDA l : l # UsageText)
\* The text is a JSON array [k, <number>].
IsResultFor(text, k) ==
  LET j == json_loads(text)
  IN  /\ j.ok
      /\ j.v.type = "array"
      /\ Len(j.v.items) = 2
      /\ j.v.items[1].type = "number" /\ j.v.items[1].n = k
      /\ j.v.items[2].type = "number"
\* The anomalyProbability a result line carries.
ProbabilityOf(text) == json_loads(text).v.items[2].n
\* main() caught an exception.
Failed == exc # ""
\* The process left through optparse's --help action.
HelpExit == pc = "exited" /\ parseArgs(argv).outcome = "sysexit"
\* The run ended with the end of the input stream and no exception.
Closed == pc \in {"return", "exited"} /\ ~Failed /\ ~HelpExit
RunningPcs == {"run_read", "compute_run", "compute_likelihood", "emit_write", "emit_flush"}
Constructed ==
  modelRecordEncoder /\ model.constructed /\ anomalyLikelihood.constructed

\* C1: the k-th output line carries rowIndex k (0, 1, 2, ... with no gap and
\* no repeat, in input order), and a run that ends at the end of the stream
\* without a failure has read every line sent and written one output line for
\* each of them.
C1_RowIndexSequence ==
  /\ \A i \in 1..Len(ResultLines) : IsResultFor(ResultLines[i], i - 1)
  /\ \A i \in 1..Len(stdoutBuf) : IsResultFor(stdoutBuf[i], Len(ResultLines) + i - 1)
  /\ (Closed /\ pc = "exited") =>
       /\ nread = nsent
       /\ Len(ResultLines) = nsent
       /\ stdoutBuf = <<>>
\* A clean run over MaxLines input lines has ended.
C1_Witness ==
  Closed /\ pc = "exited" /\ nsent = MaxLines /\ Len(ResultLines) = MaxLines

\* C2: the lines read never exceed the output lines written and flushed by
\* more than one, and whenever the process is about to read, the output of
\* every line read so far has been written and flushed.
C2_NoReadAhead ==
  /\ nread <= Len(ResultLines) + 1
  /\ pc = "run_read" => (Len(ResultLines) = nread /\ stdoutBuf = <<>>)
\* The second line has been read and is being processed, the pipe holds a
\* third, and exactly the first output line is out.
C2_Witness ==
  /\ nread = 2 /\ pc = "compute_run" /\ Len(ResultLines) = 1 /\ Len(stdin) > 0

\* The last line read does not decode to a (timestamp, value) row.
MalformedRead == nread > 0 /\ truthy(message) /\ ~decodeMessage(message).ok
FailurePcs == {"except", "exited"}
\* The text is a JSON object with the members errorText and diagnosticInfo.
IsErrorReport(text) ==
  LET j == json_loads(text)
  IN  /\ j.ok
      /\ j.v.type = "object"
      /\ Len(j.v.items) = 2
      /\ HasKey(j.v, "errorText") /\ Get(j.v, "errorText").type = "string"
      /\ HasKey(j.v, "diagnosticInfo") /\ Get(j.v, "diagnosticInfo").type = "string"
\* What holds once line number nread (position nread - 1) was malformed: the
\* process is in main()'s handler or gone, the model and the estimator have
\* seen the earlier lines only, and only the earlier lines have output.
C3_FailedAtLine ==
  /\ Failed
  /\ pc \in FailurePcs
  /\ model.nrecords = nread - 1
  /\ anomalyLikelihood.iteration = nread - 1
  /\ enumCount = nread - 1
  /\ Len(ResultLines) = nread - 1
  /\ stdoutBuf = <<>>
  /\ stderrWrites <= 1
  /\ Len(stderr) <= stderrWrites
  /\ \A i \in 1..Len(stderr) : IsErrorReport(stderr[i])
  /\ pc = "exited" => (stderrWrites = 1 /\ exitStatus = 1)

\* C3 (as amended): a malformed input line at position k is fatal at once.
\* The model is not run and the estimator is not updated for it, exactly the
\* k earlier output lines exist, no later line is read, and the ErrorReport is
\* written once to stderr -- or not at all when that write itself fails.
C3_MalformedLineIsFatal ==
  /\ [](MalformedRead => C3_FailedAtLine)
  /\ [][MalformedRead =>
          UNCHANGED <<nread, message, model, anomalyLikelihood, stdout, stdoutBuf>>]_vars
\* The second line was malformed: the process has exited with one output line
\* and one ErrorReport, and the third line sits unread in the pipe.
C3_Witness ==
  /\ MalformedRead /\ pc = "exited" /\ nread = 2 /\ Len(ResultLines) = 1
  /\ Len(stderr) = 1 /\ Len(stdin) = 1
\* C3 as claimed: after a malformed line, exactly one ErrorReport is on stderr
\* when the process has exited.
C3_Original ==
  MalformedRead => (C3_FailedAtLine /\ (pc = "exited" => Len(stderr) = 1))

\* What holds of stderr in every state: nothing is written unless main()
\* caught an exception, and once the handler has run there was one call of
\* sys.stderr.write and at most the one ErrorReport is on stderr.
C4_State ==
  /\ ~Failed => (stderr = <<>> /\ stderrWrites = 0)
  /\ Failed => pc \in FailurePcs
  /\ pc = "except" => (stderr = <<>> /\ stderrWrites = 0)
  /\ (Failed /\ pc = "exited") =>
       /\ stderrWrites = 1
       /\ Len(stderr) <= 1
       /\ \A i \in 1..Len(stderr) : IsErrorReport(stderr[i])
\* C4 (as amended): on every path to Failed the handler calls sys.stderr.write
\* exactly once before the process exits, with the ErrorReport and nothing
\* else; the ErrorReport is on stderr when the write returns and nothing is when
\* it raises; and from the moment the exception is caught nothing more goes
\* to stdout, and nothing but that one ErrorReport to stderr.
C4_OneErrorReport ==
  /\ []C4_State
  /\ [][Failed => (/\ UNCHANGED <<stdout, stdoutBuf>>
                   /\ stderrWrites' <= 1
                   /\ Len(stderr') <= 1
                   /\ pc' = "exited" => stderrWrites' = 1)]_vars
\* Writing an output line failed, and then writing the ErrorReport failed too.
C4_Witness ==
  /\ pc = "exited" /\ exc = "IOError" /\ stderrWrites = 1 /\ stderr = <<>>
  /\ Len(ResultLines) = 1
\* C4 as claimed: every run that ended in Failed left exactly one ErrorReport
\* on stderr.
C4_Original ==
  (Failed /\ pc = "exited") => (Len(stderr) = 1 /\ IsErrorReport(stderr[1]))

\* C5 (as amended): the exit status is 0 exactly when the run ended in Closed
\* or the process was started with --help (optparse prints the usage and
\* leaves with status 0); every failure path, the one where writing the
\* ErrorReport raises included, ends with status 1.
C5_ExitStatus ==
  /\ pc # "exited" => exitStatus = -1
  /\ pc = "exited" =>
       /\ exitStatus \in {0, 1}
       /\ exitStatus = 0 <=> (Closed \/ HelpExit)
       /\ Failed => exitStatus = 1
\* The ErrorReport could not be written, and the process has exited with 1.
C5_Witness ==
  pc = "exited" /\ Failed /\ stderrWrites = 1 /\ stderr = <<>> /\ exitStatus = 1
\* C5 as claimed: the exit status is 0 if and only if the run ended in Closed.
C5_Original ==
  pc = "exited" => ((exitStatus = 0 <=> Closed) /\ (Failed => exitStatus = 1))

\* C6: with valid startup parameters and an input stream that is at its end
\* on the first read, nothing is written to stdout or stderr and the exit
\* status is 0; and the encoder, the model and the estimator are all built
\* before that first read (before any read).
C6_EmptyStream ==
  /\ pc \in RunningPcs \cup {"return"} => Constructed
  /\ (Closed /\ nread = 0) =>
       /\ Constructed
       /\ model.nrecords = 0 /\ anomalyLikelihood.iteration = 0
       /\ stdout = <<>> /\ stdoutBuf = <<>>
       /\ stderr = <<>> /\ stderrWrites = 0
       /\ pc = "exited" => exitStatus = 0
\* The pipe was closed before any line was sent and the process has exited.
C6_Witness ==
  Closed /\ pc = "exited" /\ nsent = 0 /\ nread = 0 /\ exitStatus = 0 /\ Constructed

\* What holds of a run started with a malformed or missing parameter.
C7_FailedAtStartup ==
  /\ pc \in {"main"} \cup FailurePcs
  /\ pc # "main" => Failed
  /\ ~modelRecordEncoder /\ ~model.constructed /\ ~anomalyLikelihood.constructed
  /\ possibleModels = <<>>
  /\ nread = 0 /\ stdout = <<>> /\ stdoutBuf = <<>>
  /\ stderrWrites <= 1
  /\ Len(stderr) <= stderrWrites
  /\ \A i \in 1..Len(stderr) : IsErrorReport(stderr[i])
  /\ pc = "exited" => (stderrWrites = 1 /\ exitStatus # 0)
ConstructionFailed ==
  Failed /\ options # NoOptions /\ ~anomalyLikelihood.constructed
\* C8: the process reads input only once the encoder, the model and the
\* estimator are built; the model is built from a candidate of a non-empty
\* search result; and when construction fails (an empty search result
\* included) the process goes straight to main()'s handler, having read no
\* line and written no output, and construction is not tried again.
C8_ConstructBeforeRunning ==
  /\ pc \in RunningPcs \cup {"return"} => Constructed
  /\ pc = "init_likelihood" => (modelRecordEncoder /\ model.constructed)
  /\ model.constructed => Len(possibleModels) >= 1
  /\ ConstructionFailed =>
       /\ pc \in FailurePcs
       /\ nread = 0 /\ enumCount = 0
       /\ model.nrecords = 0
       /\ stdout = <<>> /\ stdoutBuf = <<>>
\* The search returned no candidate: the process has exited on the IndexError
\* while a line sent by the front end sits unread in the pipe.
C8_Witness ==
  /\ ConstructionFailed /\ exc = "IndexError" /\ possibleModels = <<>>
  /\ pc = "exited" /\ Len(stdin) = 1

\* The anomalyProbability of a result line is a number in [0, 1] (0..10 in
\* tenths).
InUnitInterval(text) ==
  /\ json_loads(text).v.items[2].type = "number"
  /\ ProbabilityOf(text) >= 0
  /\ ProbabilityOf(text) <= 10
\* C9: every anomalyProbability written to stdout (or sitting in its buffer)
\* is a number in [0, 1], never anything else, whatever the input lines and
\* whatever raw scores in [0, 1] the model returns.
C9_ProbabilityRange ==
  /\ \A i \in 1..Len(ResultLines) : InUnitInterval(ResultLines[i])
  /\ \A i \in 1..Len(stdoutBuf) : InUnitInterval(stdoutBuf[i])
\* Past the warm-up, a line with probability 1.0 has been written for a raw
\* score of 0.
C9_Witness ==
  /\ Len(ResultLines) = 3 /\ ProbabilityOf(ResultLines[3]) = 10
  /\ rawAnomalyScore = 0

\* C10: the first output line carries exactly the neutral 0.5, and the
\* estimator has no history when the first line is about to be read.
C10_FirstIsNeutral ==
  /\ Len(ResultLines) >= 1 => ProbabilityOf(ResultLines[1]) = NeutralLikelihood
  /\ (Len(ResultLines) = 0 /\ Len(stdoutBuf) >= 1) =>
       ProbabilityOf(stdoutBuf[1]) = NeutralLikelihood
  /\ (pc = "run_read" /\ nread = 0) =>
       (anomalyLikelihood.iteration = 0 /\ anomalyLikelihood.historicalScores = <<>>)
\* Three lines are out: the first with 0.5, the third with 0.0.
C10_Witness ==
  /\ Len(ResultLines) = 3
  /\ ProbabilityOf(ResultLines[1]) = 5 /\ ProbabilityOf(ResultLines[3]) = 0

\* ------------------------------------------------------------- lifecycle
InitializingPcs == {"init_encoder", "createModel", "createModel_select", "init_likelihood"}
\* The lifecycle state of the process.  "HelpExit" is the exit optparse takes
\* for -h/--help: the process is gone without having failed or run.
Lifecycle ==
  IF Failed THEN "Failed"
  ELSE IF HelpExit THEN "HelpExit"
  ELSE IF pc = "main" THEN "Idle"
  ELSE IF pc \in InitializingPcs THEN "Initializing"
  ELSE IF pc \in RunningPcs THEN "Running"
  ELSE "Closed"
\* The edges of the lifecycle as the specification draws them.
ClaimedEdges ==
  { <<"Idle", "Initializing">>, <<"Initializing", "Running">>,
    <<"Running", "Closed">>,
    <<"Idle", "Failed">>, <<"Initializing", "Failed">>, <<"Running", "Failed">> }
\* The edge optparse adds: -h/--help ends the process from Idle.
HelpEdges == { <<"Idle", "HelpExit">> }
\* The step leaves the lifecycle state alone or follows one of the edges.
FollowsEdges(edges) ==
  Lifecycle' # Lifecycle => <<Lifecycle, Lifecycle'>> \in edges
\* The step reads no input, runs no model step or estimator update and writes
\* no output line.
NoProcessing == UNCHANGED <<nread, message, model, anomalyLikelihood, stdout, stdoutBuf>>
\* What holds of the lifecycle in every state.
C11_State ==
  /\ pc = "return" => (~Failed /\ Constructed /\ message = EmptyString
                         /\ stdin = <<>> /\ closed)
  /\ Failed => pc \in FailurePcs
  /\ Lifecycle = "Closed" => pc \in {"return", "exited"}
  /\ (Lifecycle = "Closed" /\ pc = "exited") => exitStatus = 0
  /\ Lifecycle = "HelpExit" =>
       (nread = 0 /\ ~Constructed /\ ResultLines = <<>> /\ stderr = <<>>)

\* Closed is entered by the read that finds the stream closed and drained.
EntersClosedAtEndOfStream ==
  (Lifecycle' = "Closed" /\ Lifecycle # "Closed") =>
    (pc = "run_read" /\ stdin = <<>> /\ closed /\ message' = EmptyString /\ nread' = nread)
\* The terminal states are kept, and nothing is processed in them.
TerminalIsAbsorbing ==
  Lifecycle \in {"Closed", "Failed", "HelpExit"} =>
    (Lifecycle' = Lifecycle /\ NoProcessing)
\* Running is left for Closed or Failed only.
LeavesRunningForGood ==
  (Lifecycle = "Running" /\ Lifecycle' # "Running") => Lifecycle' \in {"Closed", "Failed"}

\* C11 (as amended): the lifecycle follows only the edges Idle ->
\* Initializing -> Running -> (Closed | Failed) and Idle, Initializing or
\* Running -> Failed, plus the edge Idle -> exit with status 0 that a --help
\* command line takes.  Closed is entered only from Running and only by the
\* read that finds the stream closed and drained; Closed, Failed and the help
\* exit exclude one another and are absorbing (in them no input is read, no
\* model step or estimator update runs and no output line is written); and
\* Running is not re-entered.
C11_Lifecycle ==
  /\ []C11_State
  /\ [][FollowsEdges(ClaimedEdges \cup HelpEdges)]_vars
  /\ [][EntersClosedAtEndOfStream]_vars
  /\ [][TerminalIsAbsorbing]_vars
  /\ [][LeavesRunningForGood]_vars
\* A run over two lines has ended in Closed.
C11_Witness ==
  Lifecycle = "Closed" /\ pc = "exited" /\ nread = 2 /\ Len(ResultLines) = 2
\* C11 as claimed: every step follows one of the edges Idle -> Initializing ->
\* Running -> (Closed | Failed), Any -> Failed.
C11_Original == [][FollowsEdges(ClaimedEdges)]_vars

\* The model's run step raised, or the estimator's update did (the model and
\* the estimator are built: the exception is not one of their construction).
ModelStepRaised == exc = "ModelError" /\ Constructed
EstimatorUpdateRaised == exc = "EstimatorError" /\ Constructed
\* What holds once processing line number nread (position k = nread - 1)
\* raised: the process is in main()'s handler or gone; output exists for the
\* k earlier lines, rows 0..k-1, and for no other; the estimator has had the
\* k earlier updates only; and the model has run the k earlier lines, and line
\* k too when it is the estimator that raised.
C12_AbortedAtLine ==
  /\ pc \in FailurePcs
  /\ nread >= 1 /\ rowIndex = nread - 1 /\ enumCount = nread
  /\ Len(ResultLines) = nread - 1
  /\ \A i \in 1..Len(ResultLines) : IsResultFor(ResultLines[i], i - 1)
  /\ stdoutBuf = <<>>
  /\ anomalyLikelihood.iteration = nread - 1
  /\ model.nrecords = IF ModelStepRaised THEN nread - 1 ELSE nread
\* Once either raised, no step reads, runs the model, updates the estimator
\* or writes output.
AbortIsFinal == (ModelStepRaised \/ EstimatorUpdateRaised) => NoProcessing

\* C12: when the model's run step or the estimator's update raises on input
\* line k, the run is aborted: the operation is not invoked again, exactly k
\* output lines exist (rows 0..k-1), no further line is read, and when the
\* model step raised the estimator is not updated for line k.
C12_ComputeFailureAborts ==
  /\ []((ModelStepRaised \/ EstimatorUpdateRaised) => C12_AbortedAtLine)
  /\ [][AbortIsFinal]_vars
\* The model step raised on the second line: the process has exited with one
\* output line, one estimator update, and the third line unread in the pipe.
C12_Witness ==
  /\ ModelStepRaised /\ pc = "exited" /\ nread = 2 /\ Len(ResultLines) = 1
  /\ model.nrecords = 1 /\ anomalyLikelihood.iteration = 1 /\ Len(stdin) = 1

\* The four counts of the pipeline.
LinesRead == nread
ModelSteps == model.nrecords
EstimatorUpdates == anomalyLikelihood.iteration
OutputsWritten == Len(ResultLines) + Len(stdoutBuf)
\* The row of the line last read, as the generator decodes it.
RowOfMessage == decodeMessage(message).row
\* The data point the estimator took in its last update.
LastUpdate == anomalyLikelihood.historicalScores[Len(anomalyLikelihood.historicalScores)]
\* outputs written <= estimator updates <= model steps <= lines read, each
\* pair at most 1 apart; all equal at Closed; and while line i (the last one
\* read) is processed, the i-th model step has run its record and the i-th
\* update has taken its value, its timestamp and the i-th raw score.
C13_State ==
  /\ OutputsWritten <= EstimatorUpdates /\ EstimatorUpdates <= OutputsWritten + 1
  /\ EstimatorUpdates <= ModelSteps /\ ModelSteps <= EstimatorUpdates + 1
  /\ ModelSteps <= LinesRead /\ LinesRead <= ModelSteps + 1
  /\ Lifecycle = "Closed" =>
       (OutputsWritten = LinesRead /\ EstimatorUpdates = LinesRead /\ ModelSteps = LinesRead)
  /\ (pc \in RunningPcs \ {"run_read"}) =>
       (truthy(message) /\ decodeMessage(message).ok /\ inputRow = RowOfMessage)
  /\ (pc \in RunningPcs /\ ModelSteps = LinesRead /\ LinesRead >= 1) =>
       model.records = <<encode(RowOfMessage)>>
  /\ (pc \in RunningPcs /\ EstimatorUpdates = LinesRead /\ LinesRead >= 1) =>
       LastUpdate = [timestamp |-> RowOfMessage[1], value |-> RowOfMessage[2],
                     anomalyScore |-> rawAnomalyScore]
\* Each step advances at most one count, by one, and only in the order read,
\* model step, estimator update, output; the raw score is set by the model
\* step alone.
C13_Step ==
  /\ LinesRead' # LinesRead =>
       /\ LinesRead' = LinesRead + 1
       /\ OutputsWritten = LinesRead
       /\ UNCHANGED <<model, anomalyLikelihood, stdout, stdoutBuf>>
  /\ ModelSteps' # ModelSteps =>
       /\ ModelSteps' = ModelSteps + 1
       /\ LinesRead = ModelSteps + 1
       /\ EstimatorUpdates = ModelSteps
       /\ UNCHANGED <<nread, anomalyLikelihood, stdout, stdoutBuf>>
  /\ EstimatorUpdates' # EstimatorUpdates =>
       /\ EstimatorUpdates' = EstimatorUpdates + 1
       /\ ModelSteps = EstimatorUpdates + 1
       /\ OutputsWritten = EstimatorUpdates
       /\ UNCHANGED <<nread, model, stdout, stdoutBuf>>
  /\ OutputsWritten' # OutputsWritten =>
       /\ OutputsWritten' = OutputsWritten + 1
       /\ EstimatorUpdates = OutputsWritten + 1
       /\ UNCHANGED <<nread, model, anomalyLikelihood>>
  /\ rawAnomalyScore' # rawAnomalyScore => ModelSteps' = ModelSteps + 1
  /\ model' # model => (ModelSteps' = ModelSteps + 1 \/ ~model.constructed)
  /\ anomalyLikelihood' # anomalyLikelihood =>
       (EstimatorUpdates' = EstimatorUpdates + 1 \/ ~anomalyLikelihood.constructed)

\* C13: for every line that yields output the model is run once, then the
\* estimator is updated once, then the output is written; the i-th update
\* receives the value and timestamp of the i-th line and the raw score of the
\* i-th model step; outputs <= updates <= model steps <= lines read with each
\* adjacent pair at most 1 apart, and all four are equal at Closed.
C13_OncePerLineInOrder ==
  /\ []C13_State
  /\ [][C13_Step]_vars
\* The estimator has just taken the second line, [60, 12], with the raw score
\* of the second model step; its output is not written yet.
C13_Witness ==
  /\ pc = "emit_write" /\ LinesRead = 2 /\ ModelSteps = 2 /\ EstimatorUpdates = 2
  /\ OutputsWritten = 1 /\ message.text = ValidText(60, 12)
  /\ LastUpdate.timestamp = Datetime(60) /\ LastUpdate.value.n = 12

\* The step is an estimator update that follows an earlier one.
LaterUpdate == EstimatorUpdates >= 1 /\ EstimatorUpdates' = EstimatorUpdates + 1
\* C14: for every pair of consecutive estimator updates, the timestamp of
\* the later call is greater than or equal to the timestamp of the earlier
\* call, whatever timestamps the input lines carry.
C14_NonDecreasingTimestamps ==
  [][LaterUpdate => LastUpdate'.timestamp.utc >= LastUpdate.timestamp.utc]_vars

\* The configuration the first-ranked candidate of the search carries for the
\* stats: it is made of min, max and the optional minResolution alone.
ConfigOf(stats) == Candidate(stats, 1)
\* Once the model is built its configuration is not touched again.
ConfigIsKept == model.constructed => model'.params = model.params
\* C15: the model is built from exactly the first-ranked candidate of a
\* non-empty search result, however many candidates there are, so its
\* configuration is a function of the stats alone: the model id has no part
\* in it and no input line changes it.
C15_FirstCandidateOfStats ==
  /\ [](model.constructed =>
          /\ Len(possibleModels) >= 1
          /\ model.params = possibleModels[1]
          /\ model.params = ConfigOf(options.stats)
          /\ model.params.modelConfig.rank = 1)
  /\ [][ConfigIsKept]_vars
\* Started with the other model id and with stats that give a resolution, and
\* with the search returning its most candidates, the model holds the
\* first-ranked configuration of those stats after it has run two lines.
C15_Witness ==
  /\ options.modelId = "m2" /\ Len(possibleModels) = MaxCandidates
  /\ model.constructed /\ model.params = ConfigOf(json_loads(StatsWithResolution).v)
  /\ model.params.modelConfig.minResolution = 1
  /\ ModelSteps = 2

\* The line last read is blank: it holds the newline and nothing else.
BlankLineRead == nread >= 1 /\ message = Line(<<>>, TRUE)
\* The line last read is well formed and has no newline at its end.
UnterminatedRead ==
  nread >= 1 /\ truthy(message) /\ ~message.nl /\ decodeMessage(message).ok
\* The generator ends only on the read of the empty string, which readline()
\* returns only when the pipe is closed and drained.
EndsOnZeroLengthRead ==
  (pc' = "return" /\ pc # "return") =>
    (pc = "run_read" /\ stdin = <<>> /\ closed /\ message' = EmptyString /\ nread' = nread)
\* Once the unterminated last line has its output, the next step of the
\* process is the read that ends the run, with an output line for every line
\* sent.
ClosesAfterUnterminated ==
  (UnterminatedRead /\ pc = "run_read" /\ pc' # pc) =>
    /\ pc' = "return" /\ ~Failed'
    /\ nread = nsent /\ Len(ResultLines) = nread /\ stdoutBuf = <<>>
    /\ IsResultFor(ResultLines[nread], nread - 1)
\* C17: the end of the stream is recognised only by a zero-length read.  A
\* blank line is neither the end of the stream nor skipped: it is decoded,
\* fails as malformed and is fatal.  A well-formed last line without a newline
\* is processed like any other, and the stream is closed cleanly after its
\* output line.
C17_EndOfStreamIsZeroLengthRead ==
  /\ [](BlankLineRead =>
          (/\ exc = "ValueError" /\ pc \in FailurePcs
           /\ ModelSteps = nread - 1 /\ Len(ResultLines) = nread - 1))
  /\ [](UnterminatedRead =>
          (/\ pc \in RunningPcs \cup FailurePcs
           /\ stdin = <<>> /\ closed /\ nread = nsent
           /\ rowIndex = nread - 1 /\ inputRow = RowOfMessage))
  /\ [][EndsOnZeroLengthRead]_vars
  /\ [][ClosesAfterUnterminated]_vars
\* The second and last line came without a newline; its output line is out
\* and the process is at the read that will find the end of the stream.
C17_Witness ==
  /\ UnterminatedRead /\ pc = "run_read" /\ nread = 2 /\ Len(ResultLines) = 2
  /\ IsResultFor(ResultLines[2], 1)

\* The process waits in readline(): the pipe is empty and still open.
BlockedInRead == pc = "run_read" /\ stdin = <<>> /\ ~closed
\* The process has ended in one of its terminal states.
Terminated == pc = "exited" /\ Lifecycle \in {"Closed", "Failed", "HelpExit"}
\* While the process waits in the read, nothing of the process changes: no
\* output, no model step, no exit.
WaitsInRead == BlockedInRead => (pc' = pc /\ UNCHANGED procVars)
====
